---- MODULE Spec2Model ----
(***************************************************************************)
(* A model of eden/converter/molecule/obabel.py: the generators that turn  *)
(* a stream of molecule records (SDF blocks or SMILES lines) into a stream *)
(* of attributed graphs.                                                   *)
(*                                                                         *)
(* The chemistry toolkit (pybel / openbabel), the obabel binary and        *)
(* networkx are external collaborators.  A record is modelled by what the  *)
(* toolkit reports about it: its compound id, its atoms (atomic numbers)   *)
(* and its bonds.  A SMILES line is a sequence of characters.              *)
(***************************************************************************)
EXTENDS Integers, Sequences, FiniteSets, TLC

(* ------------------------------ bounds -------------------------------- *)

\* the longest input stream (records, or lines of a file) that is read
MaxRecords == 3
\* the longest stream of SMILES lines obabel_to_eden3d is given (each line
\* is converted and gets up to n_conf conformers)
MaxSmiRecords == 2
\* the largest n_conf an invocation is given
MaxNConf == 2
\* the helper functions: atoms of a molecule, the number k of neighbours
MaxAtoms == 3
MaxK == 2
\* calculate_local_density: n_intervals
MaxIntervals == 3
\* _linear_trapezoidal_weight: pos and the four breakpoints
MaxPos == 4
\* random_bipartition_conformers: records in the iterable
MaxItems == 4

(* ------------------------------ inputs -------------------------------- *)

\* file_format arguments; "mol2" stands for any unrecognized format
Formats == {"sdf", "smi", "mol2"}

\* method keyword arguments; "other" stands for any unrecognized method
Methods == {"metric", "topological", "other"}

\* the three generator functions of the module that read a stream
Functions == {"mol_file_to_iterable", "obabel_to_eden", "obabel_to_eden3d"}

\* molecules as the toolkit reports them: atomic numbers by atom index
\* (1-based) and bonds <<begin idx, end idx, bond order>>
MolH == [atoms |-> <<1>>, bonds |-> {}]
MolHCO == [atoms |-> <<1, 6, 8>>, bonds |-> {<<1, 2, 1>>, <<2, 3, 2>>}]
Mols == {MolH, MolHCO}

\* compound ids (the PUBCHEM_COMPOUND_CID data field)
CIDs == {1, 2}

\* SDF records of an input stream
SdfRecords == [cid : CIDs, mol : Mols]

\* SMILES lines of an input stream, character by character
SmiH == <<"[", "H", "]">>
SmiCO == <<"C", "O", "\n">>
SmiParen == <<"C", "(", "O">>
SmiSquare == <<"C", "]">>
SmiTexts == {SmiH, SmiCO, SmiParen, SmiSquare}

\* the SMILES lines given to the 3D path, whose cache they fill
SmiTexts3d == {SmiCO, SmiParen, SmiSquare}

\* lines of a molecule file
LineMol == <<"M", "\n">>
LineEnd == <<"$", "$", "$", "$", "\n">>
Lines == {LineMol, LineEnd}

(* --------------------------- pure helpers ----------------------------- *)

Whitespace == {" ", "\n", "\t"}

\* str.strip(): drop leading and trailing whitespace
RECURSIVE LStrip(_)
LStrip(s) ==
    IF s # <<>> /\ Head(s) \in Whitespace THEN LStrip(Tail(s)) ELSE s

RECURSIVE RStrip(_)
RStrip(s) ==
    IF s # <<>> /\ s[Len(s)] \in Whitespace
    THEN RStrip(SubSeq(s, 1, Len(s) - 1))
    ELSE s

Strip(s) == RStrip(LStrip(s))

\* sum(1 for c in smi if c == ch)
CountChar(s, ch) == Cardinality({i \in 1..Len(s) : s[i] = ch})

smi_has_error(smi) ==
    LET t == Strip(smi)
    IN  (CountChar(t, "(") # CountChar(t, ")")) \/
        (CountChar(t, "[") # CountChar(t, "]"))

\* the toolkit's reading of a SMILES text: the element letters are the
\* atoms, bonded in a chain
AtomicNum(ch) == IF ch = "H" THEN 1 ELSE IF ch = "C" THEN 6 ELSE 8

Letters(s) == SelectSeq(s, LAMBDA c : c \in {"H", "C", "O"})

ReadSmi(smi) ==
    LET l == Letters(smi)
    IN  [atoms |-> [i \in 1..Len(l) |-> AtomicNum(l[i])],
         bonds |-> {<<i, i + 1, 1>> : i \in 1..(Len(l) - 1)}]

\* molecule.removeh(): delete the hydrogens and their bonds, renumber the
\* remaining atoms densely
Heavy(mol) == {i \in 1..Len(mol.atoms) : mol.atoms[i] # 1}

NewIdx(mol, i) == Cardinality({j \in Heavy(mol) : j <= i})

removeh(mol) ==
    [atoms |-> SelectSeq(mol.atoms, LAMBDA z : z # 1),
     bonds |-> {<<NewIdx(mol, b[1]), NewIdx(mol, b[2]), b[3]>> :
                  b \in {c \in mol.bonds : c[1] \in Heavy(mol) /\ c[2] \in Heavy(mol)}}]

(* ------------------------------ graphs -------------------------------- *)

\* nx.Graph(): node maps a node id to its attribute dictionary, edge is the
\* set of <<u, v, label>>
EmptyGraph == [node |-> <<>>, edge |-> {}]

GraphLen(g) == Cardinality(DOMAIN g.node)

\* obabel_to_networkx: the 2D graph of a molecule
obabel_to_networkx(mol) ==
    [node |-> [n \in 0..(Len(mol.atoms) - 1) |-> [label |-> mol.atoms[n + 1]]],
     edge |-> {<<b[1] - 1, b[2] - 1, b[3]>> : b \in mol.bonds}]

\* the continuous label of one atom, named by the extractor that computes it
NodeLabel(m, idx) ==
    IF m = "metric" THEN <<"find_nearest_neighbors", idx>>
    ELSE <<"calculate_local_density", idx>>

\* the attribute dictionary obabel_to_networkx3d gives node n
Node3d(mol, m, n) ==
    IF m \in {"metric", "topological"}
    THEN [label |-> NodeLabel(m, n + 1), discrete_label |-> mol.atoms[n + 1],
          atom_type |-> mol.atoms[n + 1], ID |-> n]
    ELSE [discrete_label |-> mol.atoms[n + 1],
          atom_type |-> mol.atoms[n + 1], ID |-> n]

\* obabel_to_networkx3d: the 3D graph of a molecule
obabel_to_networkx3d(mol, m) ==
    [node |-> [n \in 0..(Len(mol.atoms) - 1) |-> Node3d(mol, m, n)],
     edge |-> {<<b[1] - 1, b[2] - 1, b[3]>> : b \in mol.bonds}]

\* convert_node_labels_to_integers: the position of node x among g's nodes
Rank(S, x) == Cardinality({y \in S : y < x})

Relabel(g, first) ==
    LET S == DOMAIN g.node
        old(n) == CHOOSE x \in S : Rank(S, x) + first = n
    IN  [node |-> [n \in {Rank(S, x) + first : x \in S} |-> g.node[old(n)]],
         edge |-> {<<Rank(S, e[1]) + first, Rank(S, e[2]) + first, e[3]>> :
                     e \in g.edge}]

\* the union of two graphs over the node ids they already have
Compose(G, H) ==
    [node |-> [n \in (DOMAIN G.node) \cup (DOMAIN H.node) |->
                 IF n \in DOMAIN H.node THEN H.node[n] ELSE G.node[n]],
     edge |-> G.edge \cup H.edge]

\* a union that keeps the node ids of both graphs
UnionKeepingIds(G, H) == Compose(G, H)

UnionOfRightOnly(G, H) == Relabel(H, 0)

\* nx.disjoint_union(G, H)
disjoint_union(G, H) ==
    Compose(Relabel(G, 0), Relabel(H, GraphLen(G)))

(* ------------------------------- state -------------------------------- *)

VARIABLES
    fn,                    \* the generator function that was called
    file_format,           \* its file_format argument
    conformers_from_file,  \* obabel_to_eden3d's arguments ...
    split_components,
    n_conf,
    method,
    explicit,              \* TRUE when a cache argument was passed
    cache,                 \* the dictionary passed as cache argument
    default_cache,         \* the dictionary made by "cache={}" at definition
    pc,                    \* where the generator's body stands
    consumed,              \* the records read from the input so far
    eof,                   \* the input raised StopIteration
    lookahead,             \* groupby's current value, <<>> when it has none
    k,                     \* groupby's current key
    molecules,             \* the list "molecules" / "mols"
    mol_smi,               \* the SMILES line of this iteration, <<>> if none
    global_graph,          \* the accumulator of the merged mode
    s,                     \* mol_file_to_iterable's pending block
    out,                   \* what the generator has yielded so far
    folded,                \* the graphs folded into global_graph, in order
    cache0,                \* the content of the cache when the call was made
    ext_calls,             \* the SMILES texts handed to "obabel --gen3d"
    op,                    \* the helper function that was called last
    args,                  \* the arguments of that call
    result                 \* what that call returned

vars ==
    <<fn, file_format, conformers_from_file, split_components, n_conf, method,
      explicit, cache, default_cache, pc, consumed, eof, lookahead, k,
      molecules, mol_smi, global_graph, s, out, folded, cache0, ext_calls,
      op, args, result>>

\* the call of a helper function: the generators leave it alone
helper == <<op, args, result>>

config ==
    <<fn, file_format, conformers_from_file, split_components, n_conf, method,
      explicit>>

\* the dictionary the name "cache" is bound to in this invocation
Cache == IF explicit THEN cache ELSE default_cache

\* the records a stream of the given format is made of
Records ==
    IF fn = "mol_file_to_iterable" THEN Lines
    ELSE IF file_format = "sdf" THEN SdfRecords
    ELSE IF fn = "obabel_to_eden3d" THEN SmiTexts3d
    ELSE SmiTexts

Idle ==
    /\ fn = "obabel_to_eden3d"
    /\ file_format = "sdf"
    /\ conformers_from_file = TRUE
    /\ split_components = TRUE
    /\ n_conf = 1
    /\ method = "metric"
    /\ explicit = FALSE
    /\ cache = <<>>
    /\ default_cache = <<>>
    /\ pc = "idle"
    /\ consumed = <<>>
    /\ eof = FALSE
    /\ lookahead = <<>>
    /\ k = 0
    /\ molecules = <<>>
    /\ mol_smi = <<>>
    /\ global_graph = EmptyGraph
    /\ s = <<>>
    /\ out = <<>>
    /\ folded = <<>>
    /\ cache0 = <<>>
    /\ ext_calls = <<>>

\* no generator has been called, no helper function either
Init ==
    /\ Idle
    /\ op = "none"
    /\ args = <<>>
    /\ result = <<>>

\* the state of an invocation before any of its body has run
Fresh ==
    /\ cache' = <<>>
    /\ consumed' = <<>>
    /\ eof' = FALSE
    /\ lookahead' = <<>>
    /\ k' = 0
    /\ molecules' = <<>>
    /\ mol_smi' = <<>>
    /\ global_graph' = EmptyGraph
    /\ s' = <<>>
    /\ out' = <<>>
    /\ folded' = <<>>
    /\ ext_calls' = <<>>

\* a call of one of the generator functions: the generator object is made,
\* none of its body has run.  The cache argument is only passed to
\* obabel_to_eden3d; the sdf branches never touch it.
Call(F, FF, MM) ==
    /\ pc = "idle"
    /\ \E f \in F, ff \in FF :
         /\ fn' = f
         /\ file_format' = ff
         /\ IF f = "obabel_to_eden3d"
            THEN /\ conformers_from_file' \in BOOLEAN
                 /\ split_components' \in BOOLEAN
                 /\ n_conf' \in 0..MaxNConf
                 /\ method' \in MM
                 /\ explicit' \in (IF ff = "sdf" THEN {FALSE} ELSE BOOLEAN)
            ELSE /\ conformers_from_file' = TRUE
                 /\ split_components' = TRUE
                 /\ n_conf' = 1
                 /\ method' = "metric"
                 /\ explicit' = FALSE
    /\ pc' = "created"
    /\ Fresh
    /\ cache0' = IF explicit' THEN <<>> ELSE default_cache
    /\ UNCHANGED default_cache
    /\ UNCHANGED helper

\* a call of any of the three functions, with any file_format
Invoke == Call(Functions, Formats, Methods)

\* a call of obabel_to_eden3d on SMILES input with the default method: the
\* calls that use the cache
InvokeSmi3d == Call({"obabel_to_eden3d"}, {"smi"}, {"metric"})

\* the caller is through with the generator (it returned or raised): of
\* the invocation only the default cache dictionary remains
Return ==
    /\ pc \in {"done", "error"}
    /\ pc' = "idle"
    /\ Fresh
    /\ cache0' = <<>>
    /\ UNCHANGED <<config, default_cache>>
    /\ UNCHANGED helper

\* the branch of the body the arguments select; "error" is the raise
DispatchSmiDefault(f, ff, cff) ==
    IF f = "mol_file_to_iterable"
    THEN IF ff = "sdf" THEN "file_sdf" ELSE "file_smi"
    ELSE IF f = "obabel_to_eden"
    THEN IF ff = "sdf" THEN "eden_sdf" ELSE "eden_smi"
    ELSE IF ff = "sdf" THEN (IF cff THEN "group_next" ELSE "rec_next")
    ELSE "rec_next"

Dispatch(f, ff, cff) ==
    IF f = "mol_file_to_iterable"
    THEN IF ff = "sdf" THEN "file_sdf"
         ELSE IF ff = "smi" THEN "file_smi" ELSE "error"
    ELSE IF f = "obabel_to_eden"
    THEN IF ff = "sdf" THEN "eden_sdf"
         ELSE IF ff = "smi" THEN "eden_smi" ELSE "error"
    ELSE IF ff = "sdf" THEN (IF cff THEN "group_next" ELSE "rec_next")
    ELSE IF ff = "smi" THEN "rec_next" ELSE "error"

\* the first pull: the body runs up to its loop, or raises
Start ==
    /\ pc = "created"
    /\ pc' = Dispatch(fn, file_format, conformers_from_file)
    /\ UNCHANGED <<config, cache, default_cache, consumed, eof, lookahead, k,
                   molecules, mol_smi, global_graph, s, out, folded,
                   cache0, ext_calls>>
    /\ UNCHANGED helper

\* the input has another record r for the generator to read
StreamBound ==
    IF fn = "obabel_to_eden3d" /\ file_format = "smi"
    THEN MaxSmiRecords
    ELSE MaxRecords

CanRead(r) == ~eof /\ Len(consumed) < StreamBound /\ r \in Records

(* ------------------------ mol_file_to_iterable ------------------------ *)

\* one iteration of "for line in f" of the sdf branch, or its end
FileSdf ==
    /\ pc = "file_sdf"
    /\ \/ /\ \E line \in Lines :
               /\ CanRead(line)
               /\ consumed' = Append(consumed, line)
               /\ IF Strip(line) # Strip(LineEnd)
                  THEN s' = s \o line /\ out' = out
                  ELSE s' = <<>> /\ out' = Append(out, s \o line)
          /\ UNCHANGED <<pc, eof>>
       \/ /\ eof' = TRUE
          /\ pc' = "done"
          /\ UNCHANGED <<consumed, s, out>>
    /\ UNCHANGED <<config, cache, default_cache, lookahead, k, molecules,
                   mol_smi, global_graph, folded, cache0, ext_calls>>
    /\ UNCHANGED helper

\* one iteration of "for line in f" of the smi branch, or its end
FileSmi ==
    /\ pc = "file_smi"
    /\ \/ /\ \E line \in Lines :
               /\ CanRead(line)
               /\ consumed' = Append(consumed, line)
               /\ out' = Append(out, line)
          /\ UNCHANGED <<pc, eof>>
       \/ /\ eof' = TRUE
          /\ pc' = "done"
          /\ UNCHANGED <<consumed, out>>
    /\ UNCHANGED <<config, cache, default_cache, lookahead, k, molecules,
                   mol_smi, global_graph, s, folded, cache0, ext_calls>>
    /\ UNCHANGED helper

(* --------------------------- obabel_to_eden --------------------------- *)

\* what obabel_to_eden yields for a graph: nothing when it has no node
YieldIfAny(o, item) == IF GraphLen(item.g) > 0 THEN Append(o, item) ELSE o

\* one iteration of "for mol_sdf in read(iterable)", or its end
EdenSdf ==
    /\ pc = "eden_sdf"
    /\ \/ /\ \E mol_sdf \in Records :
               /\ CanRead(mol_sdf)
               /\ consumed' = Append(consumed, mol_sdf)
               /\ out' = YieldIfAny(out,
                             [g |-> obabel_to_networkx(removeh(mol_sdf.mol)),
                              src |-> Len(consumed) + 1])
          /\ UNCHANGED <<pc, eof>>
       \/ /\ eof' = TRUE
          /\ pc' = "done"
          /\ UNCHANGED <<consumed, out>>
    /\ UNCHANGED <<config, cache, default_cache, lookahead, k, molecules,
                   mol_smi, global_graph, s, folded, cache0, ext_calls>>
    /\ UNCHANGED helper

\* one iteration of "for mol_smi in read(iterable)", or its end
EdenSmi ==
    /\ pc = "eden_smi"
    /\ \/ /\ \E smi \in Records :
               /\ CanRead(smi)
               /\ consumed' = Append(consumed, smi)
               /\ IF smi_has_error(smi) = FALSE
                  THEN out' = YieldIfAny(out,
                                  [g |-> obabel_to_networkx(removeh(ReadSmi(Strip(smi)))),
                                   src |-> Len(consumed) + 1])
                  ELSE out' = out
          /\ UNCHANGED <<pc, eof>>
       \/ /\ eof' = TRUE
          /\ pc' = "done"
          /\ UNCHANGED <<consumed, out>>
    /\ UNCHANGED <<config, cache, default_cache, lookahead, k, molecules,
                   mol_smi, global_graph, s, folded, cache0, ext_calls>>
    /\ UNCHANGED helper

(* -------------------------- obabel_to_eden3d -------------------------- *)

Sdf == file_format = "sdf"
FromFile == file_format = "sdf" /\ conformers_from_file

\* the key function of groupby: the record's PUBCHEM_COMPOUND_CID
KeyOf(rec) == rec.cid

\* groupby keeps a record in the current group while its key is the
\* group's key
SameGroupAlways(rec, key) == TRUE

SameGroup(rec, key) == KeyOf(rec) = key

\* molecules.append(molecule)
CollectFront(ms, m) == <<m>> \o ms

Collect(ms, m) == Append(ms, m)

\* "if len(molecules) > n_conf: molecules = molecules[0:n_conf]"
CapLast(ms, n) ==
    IF Len(ms) > n THEN SubSeq(ms, Len(ms) - n + 1, Len(ms)) ELSE ms

Cap(ms, n) == IF Len(ms) > n THEN SubSeq(ms, 1, n) ELSE ms

\* "for k, g in groupby(...)": groupby hands out the next group, reading
\* the input only when it holds no record of a new key already
GroupNext ==
    /\ pc = "group_next"
    /\ \/ /\ lookahead # <<>>
          /\ k' = KeyOf(lookahead[1])
          /\ molecules' = <<>>
          /\ pc' = "in_group"
          /\ UNCHANGED <<consumed, eof, lookahead>>
       \/ /\ lookahead = <<>>
          /\ \E rec \in SdfRecords :
               /\ CanRead(rec)
               /\ consumed' = Append(consumed, rec)
               /\ lookahead' = <<rec>>
               /\ k' = KeyOf(rec)
          /\ molecules' = <<>>
          /\ pc' = "in_group"
          /\ UNCHANGED eof
       \/ /\ lookahead = <<>>
          /\ eof' = TRUE
          /\ pc' = "after_loop"
          /\ UNCHANGED <<consumed, lookahead, k, molecules>>
    /\ UNCHANGED <<config, cache, default_cache, mol_smi, global_graph, s, out,
                   folded, cache0, ext_calls>>
    /\ UNCHANGED helper

\* "for mol_sdf in g": the group's current record is parsed, stripped of
\* hydrogens and appended; the group then reads on, and ends at the first
\* record of another key (which groupby keeps) or at the end of the input
GroupItem ==
    /\ pc = "in_group"
    /\ lookahead # <<>>
    /\ molecules' = Collect(molecules, [mol |-> removeh(lookahead[1].mol),
                                        rec |-> Len(consumed)])
    /\ \/ \E rec \in SdfRecords :
              /\ CanRead(rec)
              /\ consumed' = Append(consumed, rec)
              /\ lookahead' = <<rec>>
              /\ pc' = IF SameGroup(rec, k) THEN "in_group" ELSE "cap"
              /\ UNCHANGED eof
       \/ /\ eof' = TRUE
          /\ lookahead' = <<>>
          /\ pc' = "cap"
          /\ UNCHANGED consumed
    /\ UNCHANGED <<config, cache, default_cache, k, mol_smi, global_graph, s,
                   out, folded, cache0, ext_calls>>
    /\ UNCHANGED helper

\* the cap on the group's conformers
CapGroup ==
    /\ pc = "cap"
    /\ molecules' = Cap(molecules, n_conf)
    /\ pc' = "build"
    /\ UNCHANGED <<config, cache, default_cache, consumed, eof, lookahead, k,
                   mol_smi, global_graph, s, out, folded, cache0, ext_calls>>
    /\ UNCHANGED helper

\* "for mol_sdf in read(iterable)" / "for mol_smi in read(iterable)" of the
\* branches that generate the conformers
RecNext ==
    /\ pc = "rec_next"
    /\ \/ /\ \E rec \in Records :
               /\ CanRead(rec)
               /\ consumed' = Append(consumed, rec)
               /\ IF Sdf
                  THEN /\ molecules' = <<[mol |-> rec.mol, rec |-> Len(consumed) + 1]>>
                       /\ mol_smi' = <<>>
                       /\ pc' = "genconf"
                  ELSE /\ molecules' = <<>>
                       /\ mol_smi' = <<rec>>
                       /\ pc' = "convert"
          /\ UNCHANGED eof
       \/ /\ eof' = TRUE
          /\ pc' = "after_loop"
          /\ UNCHANGED <<consumed, molecules, mol_smi>>
    /\ UNCHANGED <<config, cache, default_cache, lookahead, k, global_graph, s,
                   out, folded, cache0, ext_calls>>
    /\ UNCHANGED helper

\* "obabel -:<smi> -osdf --gen3d" with the WARNING lines removed: the SDF
\* text of the molecule the tool reads in the SMILES text
Gen3d(smi) == ReadSmi(smi)

\* "if mol_smi not in cache"
NotCachedAlways(c, smi) == TRUE

NotCached(c, smi) == smi \notin DOMAIN c

\* cache[mol_smi] = sdf
Store(c, smi, sdf) ==
    [x \in (DOMAIN c) \cup {smi} |-> IF x = smi THEN sdf ELSE c[x]]

\* the cache lookup of the smi branches: a text that is not in the cache is
\* converted by the external tool (which may fail: check_output raises) and
\* stored; the molecule of this iteration is the cache's entry
Convert ==
    /\ pc = "convert"
    /\ IF NotCached(Cache, mol_smi[1])
       THEN /\ ext_calls' = Append(ext_calls, mol_smi[1])
            /\ \/ /\ IF explicit
                     THEN /\ cache' = Store(cache, mol_smi[1], Gen3d(mol_smi[1]))
                          /\ UNCHANGED default_cache
                     ELSE /\ default_cache' =
                                Store(default_cache, mol_smi[1], Gen3d(mol_smi[1]))
                          /\ UNCHANGED cache
                  /\ molecules' = <<[mol |-> Gen3d(mol_smi[1]), rec |-> Len(consumed)]>>
                  /\ pc' = "genconf"
               \/ /\ pc' = "error"
                  /\ UNCHANGED <<cache, default_cache, molecules>>
       ELSE /\ molecules' = <<[mol |-> Cache[mol_smi[1]], rec |-> Len(consumed)]>>
            /\ pc' = "genconf"
            /\ UNCHANGED <<cache, default_cache, ext_calls>>
    /\ UNCHANGED <<config, consumed, eof, lookahead, k, mol_smi, global_graph, s,
                   out, folded, cache0>>
    /\ UNCHANGED helper

\* the numbers of conformers "obabel --conformer --nconf n" may write
ToolConformersExtra(n) == 1..(n + 1)

ToolConformers(n) == 1..n

\* generate_conformers(sdf, n_conf): the molecule itself when n_conf is 0,
\* else the conformers the external tool writes (at least one, else the
\* call raises)
GenConf ==
    /\ pc = "genconf"
    /\ \/ /\ n_conf = 0
          /\ pc' = "build"
          /\ UNCHANGED molecules
       \/ /\ n_conf # 0
          /\ \E c \in ToolConformers(n_conf) :
               molecules' = [i \in 1..c |-> molecules[1]]
          /\ pc' = "build"
       \/ /\ n_conf # 0
          /\ pc' = "error"
          /\ UNCHANGED molecules
    /\ UNCHANGED <<config, cache, default_cache, consumed, eof, lookahead, k,
                   mol_smi, global_graph, s, out, folded, cache0, ext_calls>>
    /\ UNCHANGED helper

\* one iteration of "for molecule in molecules": the graph is built and,
\* when it has a node, yielded (split) or folded into global_graph (merged)
Build ==
    /\ pc = "build"
    /\ molecules # <<>>
    /\ LET m == Head(molecules)
           mol == IF Sdf /\ ~conformers_from_file THEN removeh(m.mol) ELSE m.mol
           graph == obabel_to_networkx3d(mol, method)
       IN  IF GraphLen(graph) > 0
           THEN IF split_components
                THEN /\ out' = Append(out, [g |-> graph, src |-> m.rec])
                     /\ UNCHANGED <<global_graph, folded>>
                ELSE /\ global_graph' = disjoint_union(global_graph, graph)
                     /\ folded' = Append(folded, [g |-> graph, src |-> m.rec])
                     /\ UNCHANGED out
           ELSE UNCHANGED <<out, global_graph, folded>>
    /\ molecules' = Tail(molecules)
    /\ UNCHANGED <<config, cache, default_cache, pc, consumed, eof, lookahead, k,
                   mol_smi, s, cache0, ext_calls>>
    /\ UNCHANGED helper

\* the end of "for molecule in molecules": the merged mode of the groups
\* read from file yields global_graph here, inside the loop over the groups
EndBuild ==
    /\ pc = "build"
    /\ molecules = <<>>
    /\ IF FromFile /\ ~split_components
       THEN out' = Append(out, [g |-> global_graph, src |-> 0])
       ELSE out' = out
    /\ pc' = IF FromFile THEN "group_next" ELSE "rec_next"
    /\ UNCHANGED <<config, cache, default_cache, consumed, eof, lookahead, k,
                   molecules, mol_smi, global_graph, s, folded, cache0, ext_calls>>
    /\ UNCHANGED helper

\* the end of the loop over the input: the merged modes that generate the
\* conformers yield global_graph here; the generator returns
AfterLoop ==
    /\ pc = "after_loop"
    /\ IF ~FromFile /\ ~split_components
       THEN out' = Append(out, [g |-> global_graph, src |-> 0])
       ELSE out' = out
    /\ pc' = "done"
    /\ UNCHANGED <<config, cache, default_cache, consumed, eof, lookahead, k,
                   molecules, mol_smi, global_graph, s, folded, cache0, ext_calls>>
    /\ UNCHANGED helper

Next ==
    \/ Invoke
    \/ Start
    \/ FileSdf
    \/ FileSmi
    \/ EdenSdf
    \/ EdenSmi
    \/ GroupNext
    \/ GroupItem
    \/ CapGroup
    \/ RecNext
    \/ Convert
    \/ GenConf
    \/ Build
    \/ EndBuild
    \/ AfterLoop

\* one invocation, from the call to the end of the generator
Spec == Init /\ [][Next]_vars

\* successive invocations of obabel_to_eden3d on SMILES input
NextCalls ==
    \/ InvokeSmi3d
    \/ Return
    \/ Start
    \/ RecNext
    \/ Convert
    \/ GenConf
    \/ Build
    \/ EndBuild
    \/ AfterLoop

SpecCalls == Init /\ [][NextCalls]_vars

\* obabel_to_eden3d has been called on SDF input with the conformers read
\* from the file (and the default method); none of its body has run
InitGroups ==
    /\ fn = "obabel_to_eden3d"
    /\ file_format = "sdf"
    /\ conformers_from_file = TRUE
    /\ split_components \in BOOLEAN
    /\ n_conf \in 0..MaxNConf
    /\ method = "metric"
    /\ explicit = FALSE
    /\ cache = <<>>
    /\ default_cache = <<>>
    /\ pc = "created"
    /\ consumed = <<>>
    /\ eof = FALSE
    /\ lookahead = <<>>
    /\ k = 0
    /\ molecules = <<>>
    /\ mol_smi = <<>>
    /\ global_graph = EmptyGraph
    /\ s = <<>>
    /\ out = <<>>
    /\ folded = <<>>
    /\ cache0 = <<>>
    /\ ext_calls = <<>>
    /\ op = "none"
    /\ args = <<>>
    /\ result = <<>>

NextGroups ==
    \/ Start
    \/ GroupNext
    \/ GroupItem
    \/ CapGroup
    \/ Build
    \/ EndBuild
    \/ AfterLoop

\* one invocation on the grouping branches whose consumer keeps asking for
\* the next graph: a step that can be taken is taken
SpecGroups == InitGroups /\ [][NextGroups]_vars /\ WF_vars(NextGroups)

(* ------------------------- the helper functions ------------------------ *)

\* the molecules the helper functions are given: atoms of carbon and oxygen
\* with coordinates on a line, at whole distances
AtomKinds == {6, 8}
Coords == 0..2
CoordMols ==
    UNION {[atoms : [1..n -> AtomKinds], coords : [1..n -> Coords]] :
               n \in 1..MaxAtoms}

\* the atom_types arguments: no type, one type, two types (one of them
\* absent from every molecule), one type twice
AtomTypeLists == {<<>>, <<6>>, <<8, 6>>, <<6, 26>>, <<8, 8>>}

\* the threshold arguments (0: no threshold) and the max_dist arguments
Thresholds == {0, 1}
MaxDists == 0..3

Abs(x) == IF x < 0 THEN -x ELSE x

\* squareform(pdist(coords)): the matrix of the pairwise distances
Distances(mol) ==
    [i \in DOMAIN mol.coords |->
        [j \in DOMAIN mol.coords |-> Abs(mol.coords[i] - mol.coords[j])]]

\* np.argsort(row): the 0-based indices of the row in ascending order of
\* their values (equal values in index order)
SortRank(row, i) ==
    Cardinality({j \in DOMAIN row :
                     row[j] < row[i] \/ (row[j] = row[i] /\ j < i)}) + 1

ArgSortDescending(row) ==
    [r \in 1..Len(row) |->
        (CHOOSE i \in DOMAIN row : SortRank(row, i) = Len(row) + 1 - r) - 1]

ArgSort(row) ==
    [r \in 1..Len(row) |-> (CHOOSE i \in DOMAIN row : SortRank(row, i) = r) - 1]

\* None, in a list of 0-based atom indices
None == -1

\* "[None] * n": n entries None (no entry when n is not positive)
NonesOneLess(n) == [j \in 1..(n - 1) |-> None]

Nones(n) == [j \in 1..n |-> None]

\* the arbitrarily large distance 1e10 that stands for None.  It is kept
\* here as 2^30, the largest power of two whose successor fits a
\* 32-bit integer; like 1e10 it exceeds every distance and every threshold
Sentinel == 1073741824

\* np.spacing(1e10) is 2^-19 = 1 / 524288
SpacingDen == 524288

\* "lambda x: 1. / (x + 1)", the default similarity_fn, as the fraction
\* <<numerator, denominator>>
similarity_fn(x) == <<1, x + 1>>

\* a > b for fractions of positive denominator
FracGreater(a, b) == a[1] * b[2] > b[1] * a[2]

\* the list of lists flattened
RECURSIVE Flatten(_)
Flatten(ll) == IF ll = <<>> THEN <<>> ELSE Head(ll) \o Flatten(Tail(ll))

find_nearest_neighbors(mol, distances, current_idx, atom_types, kk, threshold) ==
    LET sorted_indices == ArgSort(distances[current_idx])
        Block(atomic_no) ==
            LET atom_idx == {i \in DOMAIN mol.atoms : mol.atoms[i] = atomic_no}
                near == SelectSeq(sorted_indices, LAMBDA id : id + 1 \in atom_idx)
            IN  IF Cardinality(atom_idx) >= kk
                THEN SubSeq(near, 1, kk)
                ELSE near \o Nones(kk - Cardinality(atom_idx))
        flat == Flatten([p \in 1..Len(atom_types) |-> Block(atom_types[p])])
        dist == [x \in 1..Len(flat) |->
                    IF flat[x] # None
                    THEN distances[current_idx][flat[x] + 1]
                    ELSE Sentinel]
        filt == IF threshold > 0
                THEN [x \in 1..Len(dist) |->
                         IF dist[x] <= threshold THEN dist[x] ELSE Sentinel]
                ELSE dist
    IN  [x \in 1..Len(filt) |->
            IF FracGreater(similarity_fn(filt[x]), <<1, SpacingDen>>)
            THEN similarity_fn(filt[x])
            ELSE <<0, 1>>]

\* np.linspace(0, max_dist, n_intervals), as fractions: the start alone
\* when one value is asked for, else evenly spaced up to max_dist
Linspace(max_dist, n) ==
    IF n = 1 THEN << <<0, 1>> >>
    ELSE [j \in 1..n |-> <<(j - 1) * max_dist, n - 1>>]

\* the fraction of the molecule's atoms within each threshold of the atom
calculate_local_density(mol, distances, current_idx, max_dist, n_intervals) ==
    LET thresholds == Linspace(max_dist, n_intervals)
        mol_size == Len(mol.atoms)
        current_distances == distances[current_idx]
    IN  [t \in 1..Len(thresholds) |->
            <<Cardinality({x \in DOMAIN current_distances :
                   current_distances[x] * thresholds[t][2] <= thresholds[t][1]}),
              mol_size>>]

\* the pairs of weights _linear_trapezoidal_weight is given
WeightPairs == {[low |-> 0, high |-> 1], [low |-> 1, high |-> 3]}

\* no value: what a function returns that ends without a return statement
NoValue == <<>>

\* the rising ramp, as a fraction:
\* (high - low) / float(up_end - up_start) * (pos - up_start) + low
RampUpFlat(pos, high_weight, low_weight, up_start, up_end) == <<low_weight, 1>>

RampUp(pos, high_weight, low_weight, up_start, up_end) ==
    <<(high_weight - low_weight) * (pos - up_start)
          + low_weight * (up_end - up_start),
      up_end - up_start>>

\* the falling ramp, as a fraction:
\* high - (high - low) / float(down_end - down_start) * (pos - down_start)
RampDown(pos, high_weight, low_weight, down_start, down_end) ==
    <<high_weight * (down_end - down_start)
          - (high_weight - low_weight) * (pos - down_start),
      down_end - down_start>>

_linear_trapezoidal_weight(pos, high_weight, low_weight, interpolate_up_start, interpolate_up_end, interpolate_down_start, interpolate_down_end) ==
    IF pos <= interpolate_up_start
    THEN <<low_weight, 1>>
    ELSE IF pos > interpolate_up_start /\ pos < interpolate_up_end
    THEN RampUp(pos, high_weight, low_weight, interpolate_up_start,
                interpolate_up_end)
    ELSE IF pos >= interpolate_up_end /\ pos <= interpolate_down_start
    THEN <<high_weight, 1>>
    ELSE IF pos > interpolate_down_start /\ pos < interpolate_down_end
    THEN RampDown(pos, high_weight, low_weight, interpolate_down_start,
                  interpolate_down_end)
    ELSE IF pos >= interpolate_down_end
    THEN <<low_weight, 1>>
    ELSE NoValue

\* the values of relative_size, as fractions
RelativeSizes == {<<0, 1>>, <<1, 2>>, <<2, 3>>, <<1, 1>>}

\* the iterables of SDF records, each given by its PUBCHEM_COMPOUND_CID
Iterables == UNION {[1..n -> CIDs] : n \in 0..MaxItems}

\* "[k for k, g in groupby(iterable_ids, key)]": the key of every run of
\* adjacent records of one key
GroupKeys(iterable) ==
    LET first == {i \in DOMAIN iterable : i = 1 \/ iterable[i - 1] # iterable[i]}
    IN  [r \in 1..Cardinality(first) |->
            iterable[CHOOSE i \in first : Rank(first, i) = r - 1]]

\* the orders random.shuffle may leave the list in
Shuffles(ids) ==
    {q \in [1..Len(ids) -> {ids[i] : i \in DOMAIN ids}] :
         \A v \in {ids[i] : i \in DOMAIN ids} :
             Cardinality({i \in DOMAIN q : q[i] = v}) =
                 Cardinality({i \in DOMAIN ids : ids[i] = v})}

\* int(relative_size * len(ids))
SplitPoint(relative_size, n) == (relative_size[1] * n) \div relative_size[2]

\* list.remove(x): the list without the first occurrence of x
Remove(l, x) ==
    LET i == CHOOSE j \in DOMAIN l : l[j] = x /\ \A h \in 1..(j - 1) : l[h] # x
    IN  SubSeq(l, 1, i - 1) \o SubSeq(l, i + 1, Len(l))

\* selection_iterator with multiple_conformers=False, from item i on: the
\* positions of the items it yields
RECURSIVE SelectOnce(_, _, _)
SelectOnce(iterable, i, local_ids) ==
    IF i > Len(iterable) THEN <<>>
    ELSE IF \E j \in DOMAIN local_ids : local_ids[j] = iterable[i]
    THEN <<i>> \o SelectOnce(iterable, i + 1, Remove(local_ids, iterable[i]))
    ELSE SelectOnce(iterable, i + 1, local_ids)

\* the positions of the items selection_iterator yields
selection_iterator(iterable, ids, multiple_conformers) ==
    IF multiple_conformers
    THEN SelectSeq([i \in DOMAIN iterable |-> i],
                   LAMBDA i : \E j \in DOMAIN ids : ids[j] = iterable[i])
    ELSE SelectOnce(iterable, 1, ids)

\* random_bipartition_conformers, given the order the shuffle left
random_bipartition_conformers(iterable, relative_size, ids) ==
    LET split_point == SplitPoint(relative_size, Len(ids))
        train_ids == SubSeq(ids, 1, split_point)
        test_ids == SubSeq(ids, split_point + 1, Len(ids))
    IN  [iter_train_no_confs |-> selection_iterator(iterable, train_ids, FALSE),
         iter_test_no_confs |-> selection_iterator(iterable, test_ids, FALSE),
         iter_train_w_confs |-> selection_iterator(iterable, train_ids, TRUE),
         iter_test_w_confs |-> selection_iterator(iterable, test_ids, TRUE)]

\* the arguments a helper function may be called with
ArgsOf(f) ==
    IF f = "find_nearest_neighbors"
    THEN {a \in [mol : CoordMols, current_idx : 1..MaxAtoms,
                 atom_types : AtomTypeLists, k : 0..MaxK,
                 threshold : Thresholds] :
              a.current_idx <= Len(a.mol.atoms)}
    ELSE IF f = "calculate_local_density"
    THEN {a \in [mol : CoordMols, current_idx : 1..MaxAtoms,
                 max_dist : MaxDists, n_intervals : 1..MaxIntervals] :
              a.current_idx <= Len(a.mol.atoms)}
    ELSE IF f = "_linear_trapezoidal_weight"
    THEN [pos : 0..MaxPos, weights : WeightPairs,
          interpolate_up_start : 0..MaxPos, interpolate_up_end : 0..MaxPos,
          interpolate_down_start : 0..MaxPos, interpolate_down_end : 0..MaxPos]
    ELSE [iterable : Iterables, relative_size : RelativeSizes]

HelperFunctions ==
    {"find_nearest_neighbors", "calculate_local_density",
     "_linear_trapezoidal_weight", "random_bipartition_conformers"}

\* a helper function has been called with its arguments; it has not run
InitHelper ==
    /\ Idle
    /\ op \in HelperFunctions
    /\ args \in ArgsOf(op)
    /\ result = <<>>

\* the generators' variables, which the helper functions leave alone
generator ==
    <<config, cache, default_cache, pc, consumed, eof, lookahead, k,
      molecules, mol_smi, global_graph, s, out, folded, cache0, ext_calls>>

FindNearestNeighbors ==
    /\ op = "find_nearest_neighbors"
    /\ result = <<>>
    /\ result' = <<find_nearest_neighbors(args.mol, Distances(args.mol),
                       args.current_idx, args.atom_types, args.k,
                       args.threshold)>>
    /\ UNCHANGED <<op, args, generator>>

CalculateLocalDensity ==
    /\ op = "calculate_local_density"
    /\ result = <<>>
    /\ result' = <<calculate_local_density(args.mol, Distances(args.mol),
                       args.current_idx, args.max_dist, args.n_intervals)>>
    /\ UNCHANGED <<op, args, generator>>

LinearTrapezoidalWeight ==
    /\ op = "_linear_trapezoidal_weight"
    /\ result = <<>>
    /\ result' = <<_linear_trapezoidal_weight(args.pos, args.weights.high,
                       args.weights.low, args.interpolate_up_start,
                       args.interpolate_up_end, args.interpolate_down_start,
                       args.interpolate_down_end)>>
    /\ UNCHANGED <<op, args, generator>>

\* the four iterators, run to their ends
RandomBipartitionConformers ==
    /\ op = "random_bipartition_conformers"
    /\ result = <<>>
    /\ \E ids \in Shuffles(GroupKeys(args.iterable)) :
           result' = <<random_bipartition_conformers(args.iterable,
                           args.relative_size, ids)>>
    /\ UNCHANGED <<op, args, generator>>

NextHelper ==
    \/ FindNearestNeighbors
    \/ CalculateLocalDensity
    \/ LinearTrapezoidalWeight
    \/ RandomBipartitionConformers

\* one call of a helper function
SpecHelper == InitHelper /\ [][NextHelper]_vars

(* ------------------------------ claims -------------------------------- *)

Is3d == fn = "obabel_to_eden3d"
Running == pc \notin {"idle", "created"}

\* the elements of a sequence
Range(q) == {q[i] : i \in 1..Len(q)}

\* the first and the last record of the run of adjacent records of one
\* compound id that holds record i of the input
RunStart(i) ==
    CHOOSE a \in 1..i :
        /\ \A j \in a..i : KeyOf(consumed[j]) = KeyOf(consumed[i])
        /\ a = 1 \/ KeyOf(consumed[a - 1]) # KeyOf(consumed[i])

RunEnd(i) ==
    CHOOSE b \in i..Len(consumed) :
        /\ \A j \in i..b : KeyOf(consumed[j]) = KeyOf(consumed[i])
        /\ b = Len(consumed) \/ KeyOf(consumed[b + 1]) # KeyOf(consumed[i])

\* the graph the 3D builder makes of record i of an sdf stream
GraphOfRecord(i) == obabel_to_networkx3d(removeh(consumed[i].mol), method)

\* what was yielded for the records a..b, in the order of the yields
YieldedFor(a, b) == SelectSeq(out, LAMBDA item : item.src \in a..b)

SplitFromFile == Is3d /\ FromFile /\ split_components

\* a run longer than n_conf, all of whose records give a graph with a node
LongRun(a) ==
    /\ a \in 1..Len(consumed)
    /\ RunStart(a) = a
    /\ RunEnd(a) - a + 1 > n_conf
    /\ \A i \in a..RunEnd(a) : GraphLen(GraphOfRecord(i)) > 0

\* C1: split mode on sdf input with the conformers read from the file: no
\* graph is ever yielded for a record beyond the first n_conf of its run,
\* and once the generator is done, a run of more than n_conf records (all
\* with non-empty graphs) has exactly n_conf graphs, those of its first
\* n_conf records in arrival order.
C1_CapKeepsFirstNConf ==
    (SplitFromFile /\ Running) =>
        /\ \A x \in 1..Len(out) : out[x].src - RunStart(out[x].src) < n_conf
        /\ pc = "done" =>
             \A a \in 1..Len(consumed) :
                 LongRun(a) =>
                     YieldedFor(a, RunEnd(a)) =
                         [i \in 1..n_conf |->
                             [g |-> GraphOfRecord(a + i - 1), src |-> a + i - 1]]

\* a finished split run over a group of three records capped at two
C1_Witness ==
    /\ SplitFromFile
    /\ pc = "done"
    /\ n_conf = 2
    /\ LongRun(1)
    /\ Len(YieldedFor(1, RunEnd(1))) = 2

MergedMode == Is3d /\ file_format \in {"sdf", "smi"} /\ ~split_components

\* C2: merged mode yields exactly one graph per invocation, and only after
\* the whole input has been consumed.
C2_MergedYieldsOnceAtEnd ==
    (MergedMode /\ Running) =>
        /\ Len(out) <= 1
        /\ out # <<>> => eof
        /\ pc = "done" => Len(out) = 1

Yields2dOr3d == fn \in {"obabel_to_eden", "obabel_to_eden3d"}

\* C3: no graph without a node is ever yielded by obabel_to_eden or
\* obabel_to_eden3d.
C3_NoEmptyGraphYielded ==
    Yields2dOr3d => \A x \in 1..Len(out) : GraphLen(out[x].g) > 0

RECURSIVE SumNodes(_)
SumNodes(q) == IF q = <<>> THEN 0 ELSE GraphLen(Head(q).g) + SumNodes(Tail(q))

RECURSIVE SumEdges(_)
SumEdges(q) ==
    IF q = <<>> THEN 0 ELSE Cardinality(Head(q).g.edge) + SumEdges(Tail(q))

\* the number of nodes folded before the i-th graph
Offset(i) == SumNodes(SubSeq(folded, 1, i - 1))

\* C4: in merged mode the accumulator has as many nodes and edges as the
\* graphs folded into it have together; the nodes of the i-th folded graph
\* sit, with their attributes, in the range that starts at the number of
\* nodes folded before it, and each of its edges joins the images of its
\* end points with its label.
C4_DisjointUnionSums ==
    (MergedMode /\ Running) =>
        /\ GraphLen(global_graph) = SumNodes(folded)
        /\ DOMAIN global_graph.node = 0..(SumNodes(folded) - 1)
        /\ Cardinality(global_graph.edge) = SumEdges(folded)
        /\ \A i \in 1..Len(folded) :
             LET H == folded[i].g
                 S == DOMAIN H.node
             IN  /\ \A n \in S :
                       global_graph.node[Rank(S, n) + Offset(i)] = H.node[n]
                 /\ \A e \in H.edge :
                       <<Rank(S, e[1]) + Offset(i), Rank(S, e[2]) + Offset(i), e[3]>>
                           \in global_graph.edge

\* three graphs of two sizes folded, with edges among them
C4_Witness ==
    /\ MergedMode
    /\ Len(folded) = 3
    /\ GraphLen(folded[1].g) # GraphLen(folded[2].g)
    /\ SumEdges(folded) >= 2

Smi3d == Is3d /\ file_format = "smi"

\* the SMILES lines whose cache lookup has been made
LookedUp ==
    IF pc = "convert"
    THEN Range(SubSeq(consumed, 1, Len(consumed) - 1))
    ELSE Range(consumed)

\* C5: on smi input the external SMILES-to-SDF conversion is called once for
\* each distinct line read that was not in the cache when the call was made,
\* and for no other line; the entries the cache had are kept as they were,
\* and the entries written are the conversions of their keys.
C5_ConvertOncePerDistinctSmiles ==
    (Smi3d /\ Running) =>
        /\ Range(ext_calls) = LookedUp \ DOMAIN cache0
        /\ Len(ext_calls) = Cardinality(LookedUp \ DOMAIN cache0)
        /\ \A x \in DOMAIN cache0 : x \in DOMAIN Cache /\ Cache[x] = cache0[x]
        /\ DOMAIN Cache \subseteq (DOMAIN cache0) \cup Range(ext_calls)
        /\ \A x \in DOMAIN Cache : Cache[x] = Gen3d(x)
        /\ pc # "error" => LookedUp \subseteq DOMAIN Cache

\* a finished run, begun with a cache that an earlier invocation had filled,
\* that read twice a line the cache did not hold and made one conversion
C5_Witness ==
    /\ Smi3d
    /\ pc = "done"
    /\ cache0 # <<>>
    /\ Len(consumed) = 2
    /\ consumed[1] = consumed[2]
    /\ consumed[1] \notin DOMAIN cache0
    /\ ext_calls = <<consumed[1]>>

\* C6: an invocation that is given no cache argument starts with an empty
\* cache.
C6_CacheEmptyAtCall ==
    (Is3d /\ pc = "created" /\ ~explicit) => Cache = <<>>

SmiInput == Yields2dOr3d /\ file_format = "smi"

\* C7: on smi input a line with unbalanced parentheses or square brackets
\* gives no graph, is never handed to the external conversion, and does not
\* stop the generator.
C7_MalformedSmilesSkipped ==
    (SmiInput /\ Running) =>
        \A i \in 1..Len(consumed) :
            smi_has_error(consumed[i]) =>
                /\ \A x \in 1..Len(out) : out[x].src # i
                /\ \A x \in 1..Len(folded) : folded[x].src # i
                /\ consumed[i] \notin Range(ext_calls)
                /\ pc = "error" => i # Len(consumed)

HasLabels(g) == \A n \in DOMAIN g.node : "label" \in DOMAIN g.node[n]

\* C8: with a method that is neither "metric" nor "topological" no graph
\* with a node is built (the build fails), and no graph yielded or folded
\* has a node without a label.
C8_UnknownMethodIsFatal ==
    (Is3d /\ Running) =>
        /\ method \notin {"metric", "topological"} =>
               /\ folded = <<>>
               /\ \A x \in 1..Len(out) : GraphLen(out[x].g) = 0
        /\ \A x \in 1..Len(out) : HasLabels(out[x].g)
        /\ \A x \in 1..Len(folded) : HasLabels(folded[x].g)

UnknownFormat == file_format \notin {"sdf", "smi"}

\* C9: with a file_format that is neither "sdf" nor "smi" the first pull
\* raises: nothing was yielded, no record was read, no external conversion
\* was called and the cache is as it was.
C9_UnknownFormatRaises ==
    (UnknownFormat /\ pc # "idle") =>
        /\ pc \in {"created", "error"}
        /\ out = <<>>
        /\ consumed = <<>>
        /\ ~eof
        /\ ext_calls = <<>>
        /\ folded = <<>>
        /\ Cache = cache0

\* obabel_to_eden3d has raised on an unrecognized file_format
C9_Witness ==
    /\ UnknownFormat
    /\ Is3d
    /\ pc = "error"

SplitMode == Is3d /\ file_format \in {"sdf", "smi"} /\ split_components

\* C10: in split mode the graphs are yielded in the order of their source
\* records; with the conformers read from the file, each record gives at
\* most one graph.
C10_SplitKeepsInputOrder ==
    (SplitMode /\ Running) =>
        \A x \in 1..Len(out) : \A y \in 1..Len(out) :
            x < y =>
                /\ out[x].src <= out[y].src
                /\ FromFile => out[x].src < out[y].src

\* two records of one group yielded in arrival order after a record of
\* another group, with an empty record dropped in between
C10_Witness ==
    /\ SplitMode
    /\ FromFile
    /\ pc = "done"
    /\ Len(consumed) = 3
    /\ Len(out) = 2
    /\ out[1].src = 1
    /\ out[2].src = 3

\* what the from-file branches have built a graph for: the yields of the
\* split mode, the folds of the merged mode
Emitted == IF split_components THEN out ELSE folded

\* record i is among the first n_conf of its run and gives a graph with a node
Retained(i) ==
    /\ i - RunStart(i) < n_conf
    /\ GraphLen(GraphOfRecord(i)) > 0

\* the records of the runs that have ended: all but the record groupby holds
Flushed ==
    1..(IF lookahead = <<>> THEN Len(consumed) ELSE Len(consumed) - 1)

\* C11: the groups are the runs of adjacent records of one compound id: each
\* run is capped on its own, so that a compound id met again after another
\* id gives a second group with up to n_conf graphs of its own; a run's
\* graphs are out when the next group is asked for, and at the end exactly
\* the first n_conf records of every run that give a graph have one.
C11_GroupsAreAdjacentRuns ==
    (Is3d /\ FromFile /\ Running) =>
        /\ \A x \in 1..Len(Emitted) :
               Emitted[x].src - RunStart(Emitted[x].src) < n_conf
        /\ pc \in {"group_next", "after_loop", "done"} =>
               \A i \in Flushed :
                   Retained(i) <=> \E x \in 1..Len(Emitted) : Emitted[x].src = i

\* compound 1, then compound 2, then compound 1 again, capped at one
\* conformer: compound 1 has two graphs, one from each of its runs
C11_Witness ==
    /\ SplitFromFile
    /\ pc = "done"
    /\ n_conf = 1
    /\ Len(consumed) = 3
    /\ KeyOf(consumed[1]) = KeyOf(consumed[3])
    /\ KeyOf(consumed[1]) # KeyOf(consumed[2])
    /\ Len(out) = 3
    /\ out[1].src = 1
    /\ out[3].src = 3

Called(f) == op = f /\ result # <<>>

\* the atoms of the molecule that have the given atomic number
AtomsOfType(mol, t) == {i \in DOMAIN mol.atoms : mol.atoms[i] = t}

\* C12: find_nearest_neighbors returns len(atom_types) * k entries, whatever
\* the molecule, the query atom, the atom_types list and k >= 0, whether a
\* type has no atom, fewer than k, exactly k or more than k atoms.
C12_VectorLength ==
    Called("find_nearest_neighbors") =>
        Len(result[1]) = Len(args.atom_types) * args.k

\* a call with two types, the first with more atoms than k and the second
\* with none
C12_Witness ==
    /\ Called("find_nearest_neighbors")
    /\ args.k = 2
    /\ Len(args.atom_types) = 2
    /\ Cardinality(AtomsOfType(args.mol, args.atom_types[1])) > args.k
    /\ Cardinality(AtomsOfType(args.mol, args.atom_types[2])) = 0
    /\ Len(result[1]) = 4

\* the j-th smallest of the distances from the query atom to the atoms T
\* (counted with repetitions)
NthNearest(row, T, j) ==
    CHOOSE d \in {row[a] : a \in T} :
        /\ Cardinality({x \in T : row[x] < d}) < j
        /\ j <= Cardinality({x \in T : row[x] <= d})

\* what the default similarity_fn makes of a distance under the threshold
Similarity(d, threshold) ==
    IF threshold > 0 /\ d > threshold THEN <<0, 1>> ELSE <<1, 1 + d>>

Min(a, b) == IF a < b THEN a ELSE b

\* C17: the vector of find_nearest_neighbors is made of one block of k
\* entries per atom type, in the order of atom_types: the block of type t
\* holds the similarities 1/(1+d) of the distances d to the min(k, count_t)
\* nearest atoms of type t in ascending order of distance (the query atom
\* itself is one of them, at distance 0, when it has type t), followed by
\* k - min(k, count_t) entries for the sentinel; the sentinel gives 0, as
\* does, when threshold > 0, a distance beyond the threshold.
C17_NearestNeighborBlocks ==
    Called("find_nearest_neighbors") =>
        LET row == Distances(args.mol)[args.current_idx]
            kk  == args.k
        IN  /\ Len(result[1]) = Len(args.atom_types) * kk
            /\ \A p \in 1..Len(args.atom_types) :
                 LET T == AtomsOfType(args.mol, args.atom_types[p])
                     m == Min(kk, Cardinality(T))
                 IN  /\ \A j \in 1..m :
                           result[1][(p - 1) * kk + j] =
                               Similarity(NthNearest(row, T, j), args.threshold)
                     /\ \A j \in (m + 1)..kk :
                           result[1][(p - 1) * kk + j] = <<0, 1>>
                     /\ (args.current_idx \in T /\ kk > 0) =>
                           result[1][(p - 1) * kk + 1] = <<1, 1>>

\* the query atom is an oxygen with a second oxygen at distance 2, k is 2
\* and the threshold is 1: the block of oxygen holds the atom itself and a
\* 0 for the oxygen beyond the threshold, the block of carbon the one carbon
\* at distance 1 and a 0 for the sentinel
C17_Witness ==
    /\ Called("find_nearest_neighbors")
    /\ args.atom_types = <<8, 6>>
    /\ args.k = 2
    /\ args.threshold = 1
    /\ Cardinality(AtomsOfType(args.mol, 6)) = 1
    /\ result[1] = << <<1, 1>>, <<0, 1>>, <<1, 2>>, <<0, 1>> >>

\* the largest pairwise distance in the molecule
Diameter(mol) ==
    CHOOSE d \in {Distances(mol)[i][j] : i, j \in DOMAIN mol.atoms} :
        \A i, j \in DOMAIN mol.atoms : Distances(mol)[i][j] <= d

\* a fraction that equals 1.0
IsOne(f) == f[1] = f[2]

\* C13: when max_dist exceeds the largest pairwise distance in the molecule,
\* the final entry of the vector of calculate_local_density is 1.0, for
\* every n_intervals >= 1 and every query atom.
C13_FinalDensityIsOne ==
    (Called("calculate_local_density") /\ args.max_dist > Diameter(args.mol)) =>
        /\ Len(result[1]) = args.n_intervals
        /\ IsOne(result[1][Len(result[1])])

\* the node ids of the graph are 0..n-1, every node carries its id as 'ID',
\* and the edges join nodes of the graph
WellNumbered(g) ==
    /\ DOMAIN g.node = 0..(GraphLen(g) - 1)
    /\ \A n \in DOMAIN g.node : g.node[n].ID = n
    /\ \A e \in g.edge : e[1] \in DOMAIN g.node /\ e[2] \in DOMAIN g.node

\* C14: in every graph obabel_to_eden3d yields, split or merged, the node
\* ids are the dense range 0..n-1, every node's 'ID' attribute equals its
\* node id, and every edge joins two nodes of the graph.
C14_IdEqualsNodeId ==
    (Is3d /\ Running) => \A x \in 1..Len(out) : WellNumbered(out[x].g)

\* the branches of obabel_to_eden3d that generate the conformers
Generated == Is3d /\ file_format \in {"sdf", "smi"} /\ ~FromFile

\* the number of graphs built (yielded or folded) for record i
GraphsFor(i) ==
    Cardinality({x \in 1..Len(Emitted) : Emitted[x].src = i})

\* the graph of the molecule of record i in the generating branches
GeneratedGraph(i) ==
    IF Sdf THEN GraphOfRecord(i)
    ELSE obabel_to_networkx3d(Gen3d(consumed[i]), method)

\* the records the loop is through with
Processed == pc \in {"rec_next", "after_loop", "done"}

FracIs(f, n, d) == f # NoValue /\ f[1] * d = n * f[2]

\* the value on a ramp from weight w0 at a to weight w1 at b is the linear
\* interpolation at pos
OnLine(f, pos, a, w0, b, w1) ==
    FracIs(f, w0 * (b - a) + (w1 - w0) * (pos - a), b - a)

\* C16 as stated: with up_start <= up_end <= down_start <= down_end the
\* function returns low_weight for pos <= up_start and for pos >= down_end,
\* high_weight for up_end <= pos <= down_start, the linear interpolation
\* strictly inside each ramp, and a weight for every pos.
C16_TrapezoidalWeight ==
    (Called("_linear_trapezoidal_weight")
        /\ args.interpolate_up_start <= args.interpolate_up_end
        /\ args.interpolate_up_end <= args.interpolate_down_start
        /\ args.interpolate_down_start <= args.interpolate_down_end) =>
        LET r == result[1]
            pos == args.pos
            low == args.weights.low
            high == args.weights.high
            us == args.interpolate_up_start
            ue == args.interpolate_up_end
            ds == args.interpolate_down_start
            de == args.interpolate_down_end
        IN  /\ r # NoValue
            /\ pos <= us => FracIs(r, low, 1)
            /\ pos >= de => FracIs(r, low, 1)
            /\ (ue <= pos /\ pos <= ds) => FracIs(r, high, 1)
            /\ (us < pos /\ pos < ue) => OnLine(r, pos, us, low, ue, high)
            /\ (ds < pos /\ pos < de) => OnLine(r, pos, ds, high, de, low)

\* C16, amended: the regions are taken in order, so that where they overlap
\* (up_start = up_end, or down_start = down_end) the earlier one wins:
\* low_weight for pos <= up_start; else high_weight for up_end <= pos <=
\* down_start; else low_weight for pos >= down_end; the linear interpolation
\* strictly inside each ramp, the mean of the two weights at a ramp's
\* midpoint; a weight for every pos.
C16_TrapezoidalWeightInOrder ==
    (Called("_linear_trapezoidal_weight")
        /\ args.interpolate_up_start <= args.interpolate_up_end
        /\ args.interpolate_up_end <= args.interpolate_down_start
        /\ args.interpolate_down_start <= args.interpolate_down_end) =>
        LET r == result[1]
            pos == args.pos
            low == args.weights.low
            high == args.weights.high
            us == args.interpolate_up_start
            ue == args.interpolate_up_end
            ds == args.interpolate_down_start
            de == args.interpolate_down_end
        IN  /\ r # NoValue
            /\ pos <= us => FracIs(r, low, 1)
            /\ (pos > us /\ ue <= pos /\ pos <= ds) => FracIs(r, high, 1)
            /\ (pos > ds /\ pos >= de) => FracIs(r, low, 1)
            /\ (us < pos /\ pos < ue) => OnLine(r, pos, us, low, ue, high)
            /\ (ds < pos /\ pos < de) => OnLine(r, pos, ds, high, de, low)
            /\ (us < pos /\ pos < ue /\ 2 * pos = us + ue) =>
                   FracIs(r, low + high, 2)
            /\ (ds < pos /\ pos < de /\ 2 * pos = ds + de) =>
                   FracIs(r, low + high, 2)

\* a call at the midpoint of a rising ramp of length 2, and the weight it
\* returned
C16_Witness ==
    /\ Called("_linear_trapezoidal_weight")
    /\ args.interpolate_up_start = 1
    /\ args.interpolate_up_end = 3
    /\ args.interpolate_down_start = 3
    /\ args.interpolate_down_end = 4
    /\ args.pos = 2
    /\ args.weights = [low |-> 1, high |-> 3]
    /\ result[1] = <<4, 2>>

\* no position occurs twice in the sequence
NoRepeat(q) == \A x, y \in DOMAIN q : q[x] = q[y] => x = y

\* the first records of their compound ids among the records w, in the
\* iterable it
FirstOfEach(it, w) ==
    {i \in Range(w) : \A j \in Range(w) : it[j] = it[i] => i <= j}

\* C19: random_bipartition_conformers partitions its input: every record is
\* in exactly one of the two with-conformers outputs, and each
\* without-conformers output holds exactly one record, the first, of every
\* compound id of its side; also when a compound id occurs in non-adjacent
\* runs.
C19_BipartitionIsPartition ==
    Called("random_bipartition_conformers") =>
        LET r == result[1]
            it == args.iterable
        IN  /\ NoRepeat(r.iter_train_w_confs)
            /\ NoRepeat(r.iter_test_w_confs)
            /\ \A i \in DOMAIN it :
                   (i \in Range(r.iter_train_w_confs))
                       # (i \in Range(r.iter_test_w_confs))
            /\ NoRepeat(r.iter_train_no_confs)
            /\ NoRepeat(r.iter_test_no_confs)
            /\ Range(r.iter_train_no_confs) = FirstOfEach(it, r.iter_train_w_confs)
            /\ Range(r.iter_test_no_confs) = FirstOfEach(it, r.iter_test_w_confs)

\* the nodes of the x-th folded graph sit in g where the union put them
HoldsFolded(g, x) ==
    LET H == folded[x].g
        S == DOMAIN H.node
    IN  \A n \in S :
            /\ Rank(S, n) + Offset(x) \in DOMAIN g.node
            /\ g.node[Rank(S, n) + Offset(x)] = H.node[n]

\* every retained record that gives a graph has been yielded (split), or
\* folded into the graph yielded last (merged)
FinalGroupFlushed ==
    \A i \in 1..Len(consumed) :
        Retained(i) =>
            IF split_components
            THEN \E x \in 1..Len(out) :
                     out[x].src = i /\ out[x].g = GraphOfRecord(i)
            ELSE /\ out # <<>>
                 /\ \E x \in 1..Len(folded) :
                        /\ folded[x].src = i
                        /\ folded[x].g = GraphOfRecord(i)
                        /\ HoldsFolded(out[Len(out)].g, x)

====
